---------------------------- MODULE Spec2Model ----------------------------
(***************************************************************************)
(* A model of the AI writing assistant: the App component's generation     *)
(* handler (handleContinue), its History Log (addToHistory), the provider  *)
(* call (generateText), the editor handle (ProseMirrorEditor) and the      *)
(* Story Store (saveStory, loadStory, newStory, deleteStory and the        *)
(* localStorage effects), together with the XState machine aiMachine.      *)
(*                                                                         *)
(* Editor text, history content and provider replies are sequences of      *)
(* one-character strings (UTF-16 code units); error messages are strings.  *)
(***************************************************************************)
EXTENDS Integers, Sequences, FiniteSets, TLC

VARIABLES
    status,          \* App: useState status  'idle'|'generating'|'success'|'error'
    error,           \* App: useState error (string, '' when none)
    editorText,      \* ProseMirrorEditor: textareaRef.current.value
    history,         \* App: useState history (HistoryEntry[])
    storedHistory,   \* localStorage item 'ai-history'
    calls,           \* the handleContinue invocations: their position and closure
    successTimers,   \* pending setTimeout(() => setStatus('idle'), 2000) callbacks
    now,             \* the reading Date.now() gives
    mStatus,         \* aiMachine: the state value
    mError,          \* aiMachine: context.error
    mLastGenerated,  \* aiMachine: context.lastGenerated
    mCall,           \* aiMachine: the invoked callGrok actor
    mIssued,         \* aiMachine: how many callGrok actors were started
    mPrevInput,      \* aiMachine: the input of the actor that settled last
    script,          \* History Log driver: the cyclic list of addToHistory inputs
    nAppends,        \* how many addToHistory calls were made
    lastAppend,      \* the arguments and clock reading of the last addToHistory call
    stories,         \* App: useState stories (Story[])
    storedStories,   \* localStorage item 'ai-stories'
    currentStoryId,  \* App: useState currentStoryId (string | null)
    showClearConfirm,\* App: useState showClearConfirm
    clearTimers,     \* pending setTimeout(() => setShowClearConfirm(false), 3000)
    appState,        \* the page: 'unmounted' | 'mounted' | 'crashed'
    lastOp           \* the operation that made the last step

appVars  == <<status, error, editorText, history, storedHistory, calls,
              successTimers, now, nAppends, lastAppend>>
machVars == <<mStatus, mError, mLastGenerated, mCall, mIssued, mPrevInput>>
storyVars == <<stories, storedStories, currentStoryId, showClearConfirm,
               clearTimers, appState>>
vars     == <<status, error, editorText, history, storedHistory, calls,
              successTimers, now, mStatus, mError, mLastGenerated, mCall,
              mIssued, mPrevInput, script, nAppends, lastAppend, stories,
              storedStories, currentStoryId, showClearConfirm, clearTimers,
              appState, lastOp>>

-----------------------------------------------------------------------------
(* Bounds of the model *)

\* handleContinue invocations that get past the empty-text check
MaxCalls == 3
\* callGrok actors the machine starts
MaxIssued == 3
\* period of the cyclic input script that drives addToHistory alone
ScriptLen == 2
\* addToHistory calls made by the History Log driver
MaxAppends == 53
\* generations of a writing session (one after the other, all successful)
MaxSessionCalls == 52
\* stories the Story Store holds
MaxStories == 2
\* readings of Date.now() after the first one
MaxTicks == 1
\* pending timers of the Clear confirmation
MaxClearTimers == 1
\* pending timers of the Clear confirmation, in a session of Clear clicks
MaxPendingConfirms == 2
\* handleContinue invocations of a session in which the History is cleared
MaxLogCalls == 1
\* handleContinue invocations of an editing session
MaxEditingCalls == 2

(* Program constants *)

\* the reading of Date.now() when the App mounts
StartTime == 1000

\* addToHistory: [entry, ...prev].slice(0, 50)
HISTORY_LIMIT == 50
\* addToHistory: content.slice(0, 200)
CONTENT_LIMIT == 200
\* saveStory: content.split('\n')[0].slice(0, 50)
TITLE_LIMIT == 50
\* saveStory: the title of a content whose first line is empty
UntitledStory == <<"U", "n", "t", "i", "t", "l", "e", "d", " ", "S", "t", "o", "r", "y">>

-----------------------------------------------------------------------------
(* JavaScript string and array operations, on sequences *)

Min(a, b) == IF a < b THEN a ELSE b

\* s.slice(start, end) for 0 <= start, 0 <= end
Slice(s, start, end) == SubSeq(s, start + 1, Min(end, Len(s)))

\* n copies of the character c
Rep(c, n) == [i \in 1..n |-> c]

WhiteSpace == {" ", "\n", "\t"}

RECURSIVE TrimStart(_)
TrimStart(s) ==
    IF s # <<>> /\ Head(s) \in WhiteSpace THEN TrimStart(Tail(s)) ELSE s

RECURSIVE TrimEnd(_)
TrimEnd(s) ==
    IF s # <<>> /\ s[Len(s)] \in WhiteSpace
    THEN TrimEnd(SubSeq(s, 1, Len(s) - 1))
    ELSE s

\* a blank check that forgets to trim: !currentText
TrimNothing(s) == s

\* s.trim()
Trim(s) == TrimEnd(TrimStart(s))

\* s.endsWith(c) for a one-character c
EndsWith(s, c) == s # <<>> /\ s[Len(s)] = c

\* p is a prefix of s
IsPrefix(p, s) == Len(p) <= Len(s) /\ SubSeq(s, 1, Len(p)) = p


-----------------------------------------------------------------------------
(* The editor handle: ProseMirrorEditor *)

\* getText: textareaRef.current?.value || ''
GetText(value) == IF value # <<>> THEN value ELSE <<>>

\* an insertTextAtEnd that always starts the reply on a new line
InsertTextAtEndOnNewLine(currentVal, text) == currentVal \o <<"\n">> \o text

\* insertTextAtEnd: the new value of the textarea
InsertTextAtEnd(currentVal, text) ==
    LET prefix == IF currentVal # <<>> /\ ~EndsWith(currentVal, "\n")
                  THEN <<"\n">> ELSE <<>>
    IN  currentVal \o prefix \o text

\* setText: the new value of the textarea
SetText(text) == text

\* clear: the new value of the textarea
Clear == <<>>

-----------------------------------------------------------------------------
(* The History Log: addToHistory and its persistence effect *)

\* an entry that stores the content whole
HistoryEntryUntruncated(type, content, t) ==
    [id |-> ToString(t), type |-> type, content |-> content, timestamp |-> t]

\* const entry: HistoryEntry = { id, type, content, timestamp }
HistoryEntry(type, content, t) ==
    [id |-> ToString(t), type |-> type,
     content |-> Slice(content, 0, CONTENT_LIMIT), timestamp |-> t]

\* an append that never evicts: [entry, ...prev]
AddToHistoryUnbounded(prev, type, content, t) ==
    <<HistoryEntry(type, content, t)>> \o prev

\* an append at the tail: [...prev, entry].slice(0, 50)
\* an addToHistory that records the replies only
AddToHistoryAiOnly(prev, type, content, t) ==
    IF type = "ai"
    THEN Slice(<<HistoryEntry(type, content, t)>> \o prev, 0, HISTORY_LIMIT)
    ELSE prev

AddToHistoryAtTail(prev, type, content, t) ==
    Slice(prev \o <<HistoryEntry(type, content, t)>>, 0, HISTORY_LIMIT)

\* setHistory(prev => [entry, ...prev].slice(0, 50))
AddToHistory(prev, type, content, t) ==
    Slice(<<HistoryEntry(type, content, t)>> \o prev, 0, HISTORY_LIMIT)

\* the record of an addToHistory call: its arguments and the clock reading
Appended(type, content, t) == [type |-> type, content |-> content, at |-> t]

\* a localStorage item: absent, the JSON text of a value, or a text that is
\* not JSON
NoItem == [kind |-> "absent", value |-> <<>>]
JsonItem(v) == [kind |-> "json", value |-> v]
CorruptItem == [kind |-> "corrupt", value |-> <<>>]

\* an effect that writes the item whatever the length of the history
HistoryEffectUnguarded(h, stored) == JsonItem(h)

\* useEffect(() => { if (history.length > 0) localStorage.setItem(...) }, [history])
HistoryEffect(h, stored) == IF Len(h) > 0 THEN JsonItem(h) ELSE stored

-----------------------------------------------------------------------------
(* The provider call: generateText over the responses of /api/grok *)

NoResponse ==
    [net |-> FALSE, ok |-> FALSE, status |-> 0, statusText |-> "", json |-> FALSE,
     errKind |-> "none", errMessage |-> "", errString |-> "", bodyText |-> "",
     hasContent |-> FALSE, content |-> <<>>]

\* fetch rejects: the relay is unreachable
NetworkFailure == [NoResponse EXCEPT !.net = TRUE]

\* 200 with choices[0].message.content = text
OkReply(text) ==
    [NoResponse EXCEPT !.ok = TRUE, !.status = 200, !.statusText = "OK",
                       !.json = TRUE, !.bodyText = "{\"choices\":[...]}",
                       !.hasContent = TRUE, !.content = text]

\* 200 with no choices[0].message.content
OkNoChoices ==
    [NoResponse EXCEPT !.ok = TRUE, !.status = 200, !.statusText = "OK",
                       !.json = TRUE, !.bodyText = "{}"]

\* 200 whose body is not JSON
OkNotJson ==
    [NoResponse EXCEPT !.ok = TRUE, !.status = 200, !.statusText = "OK"]

\* a non-success status whose JSON body carries { error: { message } }
HttpErrorObject(st, stText, msg) ==
    [NoResponse EXCEPT !.status = st, !.statusText = stText, !.json = TRUE,
                       !.errKind = "object", !.errMessage = msg,
                       !.bodyText = "{\"error\":{...}}"]

\* a non-success status whose JSON body carries { error: "..." }
HttpErrorString(st, stText, msg) ==
    [NoResponse EXCEPT !.status = st, !.statusText = stText, !.json = TRUE,
                       !.errKind = "string", !.errString = msg,
                       !.bodyText = "{\"error\":\"...\"}"]

\* a non-success status whose JSON body has no error member
HttpErrorBare(st, stText) ==
    [NoResponse EXCEPT !.status = st, !.statusText = stText, !.json = TRUE,
                       !.bodyText = "{}"]

\* a non-success status whose body is not JSON
HttpErrorNotJson(st, stText) ==
    [NoResponse EXCEPT !.status = st, !.statusText = stText]

\* the reply texts the provider gives
Replies == { <<"b", "\n">> }

Responses ==
    { OkReply(r) : r \in Replies } \cup
    { OkReply(<<>>), OkNoChoices, OkNotJson, NetworkFailure,
      HttpErrorObject(401, "Unauthorized", "Invalid API Key"),
      HttpErrorString(500, "Internal Server Error", "proxy error"),
      HttpErrorBare(403, "Forbidden"),
      HttpErrorNotJson(401, "Unauthorized"),
      HttpErrorNotJson(401, "") }

\* let errorMessage = `HTTP error! status: ${response.status}`
HttpStatusMessage(st) == "HTTP error! status: " \o ToString(st)

\* data.error?.message || data.error || JSON.stringify(data)
BodyErrorMessage(resp) ==
    IF resp.errKind = "object" /\ resp.errMessage # "" THEN resp.errMessage
    ELSE IF resp.errKind = "string" /\ resp.errString # "" THEN resp.errString
    ELSE IF resp.errKind = "object" THEN "[object Object]"
    ELSE resp.bodyText

\* the message of the Error thrown for !response.ok
HttpErrorMessage(resp) ==
    IF resp.json
    THEN BodyErrorMessage(resp)
    ELSE IF resp.statusText # "" THEN resp.statusText
         ELSE HttpStatusMessage(resp.status)

Returned(text) == [ok |-> TRUE,  text |-> text, message |-> ""]
Thrown(msg)    == [ok |-> FALSE, text |-> <<>>, message |-> msg]

\* a generateText without `if (!text) throw`: an empty reply is returned
GenerateTextUnchecked(resp) ==
    IF resp.net THEN Thrown("Failed to fetch")
    ELSE IF ~resp.ok THEN Thrown(HttpErrorMessage(resp))
    ELSE IF ~resp.json THEN Thrown("Unexpected token < in JSON at position 0")
    ELSE Returned(IF resp.hasContent THEN resp.content ELSE <<>>)

\* generateText(messages): the text returned or the Error thrown
GenerateText(resp) ==
    IF resp.net THEN Thrown("Failed to fetch")
    ELSE IF ~resp.ok THEN Thrown(HttpErrorMessage(resp))
    ELSE IF ~resp.json THEN Thrown("Unexpected token < in JSON at position 0")
    ELSE LET text == IF resp.hasContent THEN resp.content ELSE <<>>
         IN  IF text = <<>> THEN Thrown("No content returned from API")
             ELSE Returned(text)

\* const messages: ChatMessage[] = [ system, user ]
Messages(currentText) ==
    << [role |-> "system",
        content |-> <<"You are a creative writing assistant. Continue the story naturally in the same style and tone.">>],
       [role |-> "user",
        content |-> <<"Continue this story:\n\n">> \o currentText] >>

-----------------------------------------------------------------------------
(* The App component *)

\* the texts the user types into the textarea
UserTexts == { <<" ", "\n">>, <<"a">> }

\* what a step was: the operation, the response it delivered, and the
\* handleContinue invocation it belongs to (for an event sent to the machine:
\* how many callGrok actors had been started before); for an operation on a
\* Story, the id it was given
Op(name, call, resp) == [name |-> name, call |-> call, resp |-> resp, id |-> ""]
StoryOp(name, id) == [name |-> name, call |-> 0, resp |-> NoResponse, id |-> id]

\* a handleContinue invocation suspended at an await, with its closure: the
\* text it read, the messages it built, and the currentStoryId of the render
\* the click was made in (<<>> for null)
Awaiting(pc, currentText, messages, storyId) ==
    [pc |-> pc, currentText |-> currentText, messages |-> messages,
     storyId |-> storyId]
Finished == Awaiting("done", <<>>, <<>>, <<>>)

\* the invocations whose generateText call is unresolved
InFlight == { i \in 1..Len(calls) : calls[i].pc = "fetch" }

\* <button onClick={handleContinue} disabled={status === 'generating'}>
ContinueEnabled == status # "generating"

\* the user edits the textarea
TypeText ==
    /\ \E t \in UserTexts : editorText' = t
    /\ editorText' # editorText
    /\ lastOp' = Op("TypeText", 0, NoResponse)
    /\ UNCHANGED <<status, error, history, storedHistory, calls, successTimers,
                   now, machVars, storyVars, script, nAppends, lastAppend>>

\* handleContinue up to its first await, or to its catch when the text is blank
HandleContinueUpTo(limit) ==
    /\ ContinueEnabled
    /\ LET currentText == GetText(editorText)
       IN  IF Trim(currentText) = <<>>
           THEN /\ error' = "Please write something first!"
                /\ status' = "error"
                /\ UNCHANGED <<history, storedHistory, calls, nAppends, lastAppend>>
           ELSE /\ Len(calls) < limit
                /\ status' = "generating"
                /\ error' = ""
                /\ history' = AddToHistory(history, "user", currentText, now)
                /\ storedHistory' = HistoryEffect(history', storedHistory)
                /\ nAppends' = nAppends + 1
                /\ lastAppend' = Appended("user", currentText, now)
                /\ calls' = Append(calls, Awaiting("delay", currentText, <<>>,
                                               currentStoryId))
    /\ lastOp' = Op("handleContinue", 0, NoResponse)
    /\ UNCHANGED <<editorText, successTimers, now, machVars, storyVars, script>>

HandleContinue == HandleContinueUpTo(MaxCalls)

\* the 500 ms wait ends (the clock has advanced): the messages are built and
\* generateText sends them
DelayElapsed(i) ==
    /\ calls[i].pc = "delay"
    /\ calls' = [calls EXCEPT
                   ![i] = Awaiting("fetch", calls[i].currentText,
                                   Messages(calls[i].currentText),
                                   calls[i].storyId)]
    /\ now' = now + 1
    /\ lastOp' = Op("DelayElapsed", i, NoResponse)
    /\ UNCHANGED <<status, error, editorText, history, storedHistory,
                   successTimers, machVars, storyVars, script, nAppends, lastAppend>>

\* generateText settles: the rest of the try block, or the catch block
ProviderResolves(i, resp) ==
    /\ calls[i].pc = "fetch"
    /\ LET result == GenerateText(resp)
       IN  IF result.ok
           THEN /\ editorText' = InsertTextAtEnd(editorText, result.text)
                /\ history' = AddToHistory(history, "ai", result.text, now)
                /\ storedHistory' = HistoryEffect(history', storedHistory)
                /\ nAppends' = nAppends + 1
                /\ lastAppend' = Appended("ai", result.text, now)
                /\ status' = "success"
                /\ successTimers' = successTimers + 1
                /\ UNCHANGED error
           ELSE /\ error' = result.message
                /\ status' = "error"
                /\ UNCHANGED <<editorText, history, storedHistory, successTimers,
                               nAppends, lastAppend>>
    /\ calls' = [calls EXCEPT ![i] = Finished]
    /\ lastOp' = Op("ProviderResolves", i, resp)
    /\ UNCHANGED <<now, machVars, storyVars, script>>

\* setTimeout(() => setStatus('idle'), 2000) fires (the clock has advanced)
SuccessTimerFires ==
    /\ successTimers > 0
    /\ successTimers' = successTimers - 1
    /\ status' = "idle"
    /\ now' = now + 1
    /\ lastOp' = Op("SuccessTimerFires", 0, NoResponse)
    /\ UNCHANGED <<error, editorText, history, storedHistory, calls,
                   machVars, storyVars, script, nAppends, lastAppend>>

\* clearHistory: setHistory([]), localStorage.removeItem('ai-history'), and
\* the persistence effect of the empty history
ClearHistory ==
    /\ history' = <<>>
    /\ storedHistory' = HistoryEffect(history', NoItem)
    /\ lastOp' = Op("clearHistory", 0, NoResponse)
    /\ UNCHANGED <<status, error, editorText, calls, successTimers, now,
                   machVars, storyVars, script, nAppends, lastAppend>>

-----------------------------------------------------------------------------
(* The XState machine aiMachine.  null is the empty sequence and a string *)
(* s the one-element sequence <<s>>.                                       *)

Null == <<>>
Str(s) == <<s>>

\* x || dflt for x a string or null
OrElse(x, dflt) == IF x = Null \/ x = Str("") THEN dflt ELSE x[1]

MachineEvents == {"GENERATE", "CONTINUE", "RETRY", "CANCEL"}

\* a machine whose generating state restarts on GENERATE
TargetRestarting(state, event) ==
    CASE state = "idle"       /\ event = "GENERATE" -> "generating"
      [] state = "generating" /\ event = "GENERATE" -> "generating"
      [] state = "success"    /\ event = "CONTINUE" -> "idle"
      [] state = "failure"    /\ event = "RETRY"    -> "generating"
      [] state = "failure"    /\ event = "CANCEL"   -> "idle"
      [] OTHER -> "none"

\* `on` tables in which failure handles CONTINUE as success does
TargetContinueFromFailure(state, event) ==
    CASE state = "idle"    /\ event = "GENERATE" -> "generating"
      [] state = "success" /\ event = "CONTINUE" -> "idle"
      [] state = "failure" /\ event = "CONTINUE" -> "idle"
      [] state = "failure" /\ event = "RETRY"    -> "generating"
      [] state = "failure" /\ event = "CANCEL"   -> "idle"
      [] OTHER -> "none"

\* the `on` tables of the states: the target of an event, "none" when the
\* state does not handle it
Target(state, event) ==
    CASE state = "idle"    /\ event = "GENERATE" -> "generating"
      [] state = "success" /\ event = "CONTINUE" -> "idle"
      [] state = "failure" /\ event = "RETRY"    -> "generating"
      [] state = "failure" /\ event = "CANCEL"   -> "idle"
      [] OTHER -> "none"

\* an entry action that leaves the error of the failed attempt
GeneratingEntryErrorKept(err) == err

\* generating.entry: assign({ error: () => null })
GeneratingEntryError(err) == Null

\* generating.invoke.input: ({ context }) => ({ text: context.lastGenerated || '' })
CallGrokInput(lastGenerated) == OrElse(lastGenerated, "")

\* an onError that also resets lastGenerated
OnErrorLastGeneratedReset(lastGenerated) == Null

\* onError assigns error only: lastGenerated stays
OnErrorLastGenerated(lastGenerated) == lastGenerated

\* a CANCEL that would reset lastGenerated
CancelResetsLastGenerated(event, lastGenerated) ==
    IF event = "CANCEL" THEN Null ELSE lastGenerated

\* CONTINUE: 'idle' and CANCEL: 'idle' are bare targets: they run no assign,
\* so lastGenerated is what it was
BareTargetLastGenerated(event, lastGenerated) == lastGenerated

\* onError: (event.error as Error).message || 'Unknown error'
OnErrorMessage(message) == OrElse(Str(message), "Unknown error")

NoActor == [active |-> FALSE, text |-> ""]

\* an invoke whose actor is not started
ActorNotStarted(text) == [active |-> FALSE, text |-> text]

\* the callGrok actor the invoke starts with its input
Actor(text) == [active |-> TRUE, text |-> text]

\* what the callGrok actor resolves with, and the messages it rejects with
GeneratedTexts == {"", "once", "upon"}
ErrorMessages == {"Not implemented", ""}

\* actor.send(event)
Send(event) ==
    /\ LET target == Target(mStatus, event)
       IN  CASE target = "generating" ->
                  /\ mIssued < MaxIssued
                  /\ mStatus' = "generating"
                  /\ mError' = GeneratingEntryError(mError)
                  /\ mCall' = Actor(CallGrokInput(mLastGenerated))
                  /\ mIssued' = mIssued + 1
                  /\ UNCHANGED <<mLastGenerated, mPrevInput>>
             [] target = "none" ->
                  UNCHANGED machVars
             [] OTHER ->
                  /\ mStatus' = target
                  /\ mLastGenerated' = BareTargetLastGenerated(event, mLastGenerated)
                  /\ UNCHANGED <<mError, mCall, mIssued, mPrevInput>>
    /\ lastOp' = Op(event, mIssued, NoResponse)
    /\ UNCHANGED <<appVars, storyVars, script>>

\* invoke.onDone: the callGrok promise resolves
CallGrokDone(generatedText) ==
    /\ mStatus = "generating"
    /\ mCall.active
    /\ mStatus' = "success"
    /\ mLastGenerated' = Str(generatedText)
    /\ mPrevInput' = mCall.text
    /\ mCall' = NoActor
    /\ lastOp' = Op("callGrok.done", 0, NoResponse)
    /\ UNCHANGED <<mError, mIssued, appVars, storyVars, script>>

\* invoke.onError: the callGrok promise rejects
CallGrokError(message) ==
    /\ mStatus = "generating"
    /\ mCall.active
    /\ mStatus' = "failure"
    /\ mError' = Str(OnErrorMessage(message))
    /\ mPrevInput' = mCall.text
    /\ mCall' = NoActor
    /\ mLastGenerated' = OnErrorLastGenerated(mLastGenerated)
    /\ lastOp' = Op("callGrok.error", 0, NoResponse)
    /\ UNCHANGED <<mIssued, appVars, storyVars, script>>

\* createMachine: initial 'idle', context { error: null, lastGenerated: null }
MachineIdle ==
    /\ mStatus = "idle"
    /\ mError = Null
    /\ mLastGenerated = Null
    /\ mCall = NoActor
    /\ mIssued = 0
    /\ mPrevInput = ""

\* the state of a mounted App whose textarea holds text
AppMountedWith(text) ==
    /\ status = "idle"
    /\ error = ""
    /\ editorText = text
    /\ history = <<>>
    /\ storedHistory = NoItem
    /\ calls = <<>>
    /\ successTimers = 0
    /\ now = StartTime
    /\ nAppends = 0
    /\ lastAppend = Appended("none", <<>>, 0)
    /\ stories = <<>>
    /\ storedStories = NoItem
    /\ currentStoryId = Null
    /\ showClearConfirm = FALSE
    /\ clearTimers = <<>>
    /\ appState = "mounted"

\* the App after its first render: useState initial values, an empty textarea
AppMounted == AppMountedWith(<<>>)

Init ==
    /\ AppMounted
    /\ MachineIdle
    /\ script = <<>>
    /\ lastOp = Op("init", 0, NoResponse)

Next ==
    \/ TypeText
    \/ HandleContinue
    \/ \E i \in 1..Len(calls) : DelayElapsed(i)
    \/ \E i \in 1..Len(calls) : \E resp \in Responses : ProviderResolves(i, resp)
    \/ SuccessTimerFires

Spec == Init /\ [][Next]_vars

NextMachine ==
    \/ \E event \in MachineEvents : Send(event)
    \/ \E generatedText \in GeneratedTexts : CallGrokDone(generatedText)
    \/ \E message \in ErrorMessages : CallGrokError(message)

SpecMachine == Init /\ [][NextMachine]_vars

\* the promise of the invoked callGrok settles: it resolves or it rejects
CallGrokSettles ==
    \/ \E generatedText \in GeneratedTexts : CallGrokDone(generatedText)
    \/ \E message \in ErrorMessages : CallGrokError(message)

\* the machine with a provider call that settles at last
SpecMachineFair == SpecMachine /\ WF_vars(CallGrokSettles)

-----------------------------------------------------------------------------
(* The History Log on its own: addToHistory driven by a cyclic script of   *)
(* inputs, or by a writing session of successful generations made one      *)
(* after the other.                                                        *)

\* an input of addToHistory: its arguments, and how far the clock moved
\* since the call before (it steps back when the system time is adjusted)
HistoryInput(type, content, dt) == [type |-> type, content |-> content, dt |-> dt]

HistoryInputs ==
    { HistoryInput("user", <<"a">>, 1),
      HistoryInput("ai",   Rep("x", CONTENT_LIMIT - 1) \o <<"y">>, 0),
      HistoryInput("ai",   Rep("x", CONTENT_LIMIT - 1) \o <<"y", "z">>, 1),
      HistoryInput("user", Rep("x", CONTENT_LIMIT) \o Rep("z", 50), -1) }

\* the script is empty in a writing session
Scripted == script # <<>>

\* addToHistory(type, content) with the next input of the script
AppendEntry ==
    /\ Scripted
    /\ nAppends < MaxAppends
    /\ LET input == script[(nAppends % Len(script)) + 1]
       IN  /\ now' = now + input.dt
           /\ history' = AddToHistory(history, input.type, input.content, now')
           /\ lastAppend' = Appended(input.type, input.content, now')
    /\ storedHistory' = HistoryEffect(history', storedHistory)
    /\ nAppends' = nAppends + 1
    /\ lastOp' = Op("addToHistory", 0, NoResponse)
    /\ UNCHANGED <<status, error, editorText, calls, successTimers, machVars,
                   storyVars, script>>

\* the user clicks Continue once the status is idle again
SessionContinue ==
    /\ ~Scripted
    /\ status = "idle"
    /\ HandleContinueUpTo(MaxSessionCalls)

SessionDelayElapsed ==
    /\ ~Scripted
    /\ \E i \in 1..Len(calls) : DelayElapsed(i)

SessionProviderReplies ==
    /\ ~Scripted
    /\ \E i \in 1..Len(calls) : \E r \in Replies : ProviderResolves(i, OkReply(r))

SessionTimerFires ==
    /\ ~Scripted
    /\ SuccessTimerFires

InitScripted ==
    /\ AppMounted
    /\ MachineIdle
    /\ script \in [1..ScriptLen -> HistoryInputs]
    /\ lastOp = Op("init", 0, NoResponse)

\* in a session the user has typed the beginning of a story
InitSession ==
    /\ \E t \in UserTexts : Trim(t) # <<>> /\ AppMountedWith(t)
    /\ MachineIdle
    /\ script = <<>>
    /\ lastOp = Op("init", 0, NoResponse)

InitHistory == InitScripted \/ InitSession

NextHistory ==
    \/ AppendEntry
    \/ SessionContinue
    \/ SessionDelayElapsed
    \/ SessionProviderReplies
    \/ SessionTimerFires

SpecHistory == InitHistory /\ [][NextHistory]_vars

-----------------------------------------------------------------------------
(* The Story Store of the App: saveStory, loadStory, newStory, deleteStory, *)
(* handleClear, and the localStorage effects that load and persist it      *)

\* content.split('\n')[0]: the characters before the first line break
RECURSIVE FirstLine(_)
FirstLine(s) ==
    IF s = <<>> \/ Head(s) = "\n" THEN <<>> ELSE <<Head(s)>> \o FirstLine(Tail(s))

\* a title that is the whole first line
StoryTitleUntruncated(content) ==
    LET line == FirstLine(content)
    IN  IF line # <<>> THEN line ELSE UntitledStory

\* const title = content.split('\n')[0].slice(0, 50) || 'Untitled Story'
StoryTitle(content) ==
    LET line == Slice(FirstLine(content), 0, TITLE_LIMIT)
    IN  IF line # <<>> THEN line ELSE UntitledStory

\* const newStory: Story = { id: Date.now().toString(), title, content, ... }
NewStoryRecord(content, t) ==
    [id |-> ToString(t), title |-> StoryTitle(content), content |-> content,
     timestamp |-> t]

\* a map that replaces the content and leaves the title
UpdateStoryContentOnly(list, id, content) ==
    [i \in 1..Len(list) |->
       IF list[i].id = id THEN [list[i] EXCEPT !.content = content] ELSE list[i]]

\* stories.map(s => s.id === currentStoryId ? { ...s, content, title } : s)
UpdateStory(list, id, content) ==
    [i \in 1..Len(list) |->
       IF list[i].id = id
       THEN [list[i] EXCEPT !.content = content, !.title = StoryTitle(content)]
       ELSE list[i]]

\* a filter that removes the first Story of the list, whatever its id
RemoveFirstStory(list, id) == Tail(list)

\* stories.filter(s => s.id !== id)
RemoveStory(list, id) == SelectSeq(list, LAMBDA s : s.id # id)

\* the ids of the stories of a list
StoryIds(list) == { list[i].id : i \in 1..Len(list) }

\* the state saveStory sets for a non-blank content: with a current id it
\* maps over the stories, without one it prepends a new Story and makes it
\* the current one
SaveStoryState(list, current, content, t) ==
    IF current # Null
    THEN [stories |-> UpdateStory(list, current[1], content),
          currentStoryId |-> current]
    ELSE [stories |-> <<NewStoryRecord(content, t)>> \o list,
          currentStoryId |-> Str(NewStoryRecord(content, t).id)]

\* useEffect(() => { if (stories.length > 0) localStorage.setItem(...) }, [stories])
StoriesEffect(list, stored) == IF Len(list) > 0 THEN JsonItem(list) ELSE stored

\* JSON.parse(saved) throws a SyntaxError for a text that is not JSON
ParseThrows(item) == item.kind = "corrupt"

\* if (saved) setX(JSON.parse(saved)): the state after the load of an item
\* that parses; the useState initial value [] stays when nothing is stored
Loaded(item) == IF item.kind = "json" THEN item.value ELSE <<>>

\* what the user writes in the textarea when working on stories
StoryTexts == { <<" ">>, <<"a">>, <<"\n", "b">> }

\* the values localStorage holds for 'ai-stories' and 'ai-history' when the
\* page is opened: nothing, what an earlier visit persisted, or a text that
\* is not JSON
StoredAtStart ==
    { <<NoItem, NoItem>>,
      <<JsonItem(<<NewStoryRecord(<<"a">>, StartTime - 1)>>),
        JsonItem(<<HistoryEntry("ai", <<"b">>, StartTime - 1)>>)>>,
      <<CorruptItem, NoItem>>,
      <<NoItem, CorruptItem>> }

\* the page is opened, or reloaded: the component mounts with its useState
\* initial values and the load effect reads localStorage; an exception of
\* JSON.parse leaves the effect and takes the component tree down
Mount ==
    /\ appState \in {"unmounted", "mounted"}
    /\ status' = "idle"
    /\ error' = ""
    /\ editorText' = <<>>
    /\ calls' = <<>>
    /\ successTimers' = 0
    /\ currentStoryId' = Null
    /\ showClearConfirm' = FALSE
    /\ clearTimers' = <<>>
    /\ IF ParseThrows(storedStories) \/ ParseThrows(storedHistory)
       THEN /\ appState' = "crashed"
            /\ stories' = <<>>
            /\ history' = <<>>
            /\ UNCHANGED <<storedStories, storedHistory>>
       ELSE /\ appState' = "mounted"
            /\ stories' = Loaded(storedStories)
            /\ history' = Loaded(storedHistory)
            /\ storedStories' = StoriesEffect(stories', storedStories)
            /\ storedHistory' = HistoryEffect(history', storedHistory)
    /\ lastOp' = StoryOp("mount", "")
    /\ UNCHANGED <<now, machVars, script, nAppends, lastAppend>>

\* the user edits the textarea while working on stories
TypeStoryText ==
    /\ appState = "mounted"
    /\ \E t \in StoryTexts : editorText' = t
    /\ editorText' # editorText
    /\ lastOp' = StoryOp("TypeText", "")
    /\ UNCHANGED <<status, error, history, storedHistory, calls, successTimers,
                   now, machVars, storyVars, script, nAppends, lastAppend>>

\* Date.now() gives another reading: time passes, or the system clock is set
\* back
ClockMoves ==
    /\ appState = "mounted"
    /\ \E t \in StartTime..(StartTime + MaxTicks) : t # now /\ now' = t
    /\ lastOp' = StoryOp("clock", "")
    /\ UNCHANGED <<status, error, editorText, history, storedHistory, calls,
                   successTimers, machVars, storyVars, script, nAppends,
                   lastAppend>>

\* saveStory, with the persistence effect of the stories it sets
SaveStory ==
    /\ appState = "mounted"
    /\ LET content == GetText(editorText)
       IN  IF Trim(content) = <<>>
           THEN UNCHANGED <<stories, storedStories, currentStoryId>>
           ELSE LET saved == SaveStoryState(stories, currentStoryId, content, now)
                IN  /\ Len(saved.stories) <= MaxStories
                    /\ stories' = saved.stories
                    /\ currentStoryId' = saved.currentStoryId
                    /\ storedStories' = StoriesEffect(stories', storedStories)
    /\ lastOp' = StoryOp("saveStory", "")
    /\ UNCHANGED <<status, error, editorText, history, storedHistory, calls,
                   successTimers, now, machVars, showClearConfirm, clearTimers,
                   appState, script, nAppends, lastAppend>>

\* loadStory(story), for a story of the list the sidebar shows
LoadStory(i) ==
    /\ appState = "mounted"
    /\ editorText' = SetText(stories[i].content)
    /\ currentStoryId' = Str(stories[i].id)
    /\ lastOp' = StoryOp("loadStory", stories[i].id)
    /\ UNCHANGED <<status, error, history, storedHistory, calls, successTimers,
                   now, machVars, stories, storedStories, showClearConfirm,
                   clearTimers, appState, script, nAppends, lastAppend>>

\* newStory
NewStory ==
    /\ appState = "mounted"
    /\ editorText' = Clear
    /\ currentStoryId' = Null
    /\ lastOp' = StoryOp("newStory", "")
    /\ UNCHANGED <<status, error, history, storedHistory, calls, successTimers,
                   now, machVars, stories, storedStories, showClearConfirm,
                   clearTimers, appState, script, nAppends, lastAppend>>

\* deleteStory(id), for the id of a story of the list the sidebar shows,
\* with the persistence effect of the stories it sets
DeleteStory(id) ==
    /\ appState = "mounted"
    /\ stories' = RemoveStory(stories, id)
    /\ storedStories' = StoriesEffect(stories', storedStories)
    /\ IF currentStoryId = Str(id)
       THEN /\ editorText' = Clear
            /\ currentStoryId' = Null
       ELSE UNCHANGED <<editorText, currentStoryId>>
    /\ lastOp' = StoryOp("deleteStory", id)
    /\ UNCHANGED <<status, error, history, storedHistory, calls, successTimers,
                   now, machVars, showClearConfirm, clearTimers, appState,
                   script, nAppends, lastAppend>>

\* the pending timers once the confirmation they were started for is no
\* longer awaited
Stale(timers) == [i \in 1..Len(timers) |-> "stale"]

\* handleClear: the first click asks for confirmation and starts the 3 s
\* timer, a click while the confirmation shows clears the editor.  The timers
\* are kept in the order they were started, which is the order they fire in
\* (they all wait 3000 ms); the timer of the confirmation that is awaited is
\* "open" until it fires or the confirmation is given.
HandleClearUpTo(limit) ==
    /\ appState = "mounted"
    /\ IF showClearConfirm
       THEN /\ editorText' = Clear
            /\ showClearConfirm' = FALSE
            /\ currentStoryId' = Null
            /\ clearTimers' = Stale(clearTimers)
       ELSE /\ Len(clearTimers) < limit
            /\ showClearConfirm' = TRUE
            /\ clearTimers' = Append(Stale(clearTimers), "open")
            /\ UNCHANGED <<editorText, currentStoryId>>
    /\ lastOp' = StoryOp("handleClear", "")
    /\ UNCHANGED <<status, error, history, storedHistory, calls, successTimers,
                   now, machVars, stories, storedStories, appState, script,
                   nAppends, lastAppend>>

HandleClear == HandleClearUpTo(MaxClearTimers)

\* the setTimeout(() => setShowClearConfirm(false), 3000) started first fires
ClearConfirmExpires ==
    /\ appState = "mounted"
    /\ clearTimers # <<>>
    /\ clearTimers' = Tail(clearTimers)
    /\ showClearConfirm' = FALSE
    /\ lastOp' = StoryOp("clearConfirmExpires", "")
    /\ UNCHANGED <<status, error, editorText, history, storedHistory, calls,
                   successTimers, now, machVars, stories, storedStories,
                   currentStoryId, appState, script, nAppends, lastAppend>>

\* the page before it is opened
InitStories ==
    /\ appState = "unmounted"
    /\ \E stored \in StoredAtStart :
          /\ storedStories = stored[1]
          /\ storedHistory = stored[2]
    /\ status = "idle"
    /\ error = ""
    /\ editorText = <<>>
    /\ history = <<>>
    /\ calls = <<>>
    /\ successTimers = 0
    /\ now = StartTime
    /\ nAppends = 0
    /\ lastAppend = Appended("none", <<>>, 0)
    /\ stories = <<>>
    /\ currentStoryId = Null
    /\ showClearConfirm = FALSE
    /\ clearTimers = <<>>
    /\ MachineIdle
    /\ script = <<>>
    /\ lastOp = Op("init", 0, NoResponse)

NextStories ==
    \/ Mount
    \/ TypeStoryText
    \/ ClockMoves
    \/ SaveStory
    \/ \E i \in 1..Len(stories) : LoadStory(i)
    \/ NewStory
    \/ \E id \in StoryIds(stories) : DeleteStory(id)
    \/ HandleClear
    \/ ClearConfirmExpires

SpecStories == InitStories /\ [][NextStories]_vars

\* saveStory as a function of the state it reads: the stories, the current
\* id (null, the id of a Story of the list, or an id of no Story), the
\* content of the editor and the reading of the clock
SavedLists ==
    { <<>>,
      <<NewStoryRecord(<<"a">>, StartTime - 1)>>,
      <<NewStoryRecord(<<"\n", "b">>, StartTime - 2),
        NewStoryRecord(<<"a">>, StartTime - 1)>> }

CurrentIds ==
    { Null, Str(ToString(StartTime - 1)), Str(ToString(StartTime - 2)),
      Str(ToString(StartTime - 3)) }

\* the contents saveStory reads: nothing, the texts of a story session, and
\* texts whose first line has 50 and 51 characters
SavedTexts ==
    StoryTexts \cup
    { <<>>,
      Rep("x", TITLE_LIMIT) \o <<"\n", "z">>,
      Rep("x", TITLE_LIMIT) \o <<"y", "\n", "z">> }

InitSaveStory ==
    /\ appState = "mounted"
    /\ stories \in SavedLists
    /\ storedStories = StoriesEffect(stories, NoItem)
    /\ currentStoryId \in CurrentIds
    /\ editorText \in SavedTexts
    /\ now \in StartTime..(StartTime + MaxTicks)
    /\ status = "idle"
    /\ error = ""
    /\ history = <<>>
    /\ storedHistory = NoItem
    /\ calls = <<>>
    /\ successTimers = 0
    /\ nAppends = 0
    /\ lastAppend = Appended("none", <<>>, 0)
    /\ showClearConfirm = FALSE
    /\ clearTimers = <<>>
    /\ MachineIdle
    /\ script = <<>>
    /\ lastOp = Op("init", 0, NoResponse)

NextSaveStory == SaveStory

SpecSaveStory == InitSaveStory /\ [][NextSaveStory]_vars

\* An editing session: generations, with the user typing or starting a new
\* story (which empties the editor) while a call is in flight.  The provider
\* answers with a short reply, with a reply of more than 200 characters, or
\* not at all.
EditingResponses ==
    { OkReply(r) : r \in Replies } \cup
    { OkReply(Rep("x", CONTENT_LIMIT) \o <<"y">>), NetworkFailure }

EditingContinue == HandleContinueUpTo(MaxEditingCalls)

NextEditing ==
    \/ TypeText
    \/ NewStory
    \/ EditingContinue
    \/ \E i \in 1..Len(calls) : DelayElapsed(i)
    \/ \E i \in 1..Len(calls) : \E resp \in EditingResponses : ProviderResolves(i, resp)
    \/ SuccessTimerFires

SpecEditing == Init /\ [][NextEditing]_vars

\* A session of clicks on Clear, with stories saved in between
ClearClick == HandleClearUpTo(MaxPendingConfirms)

NextClear ==
    \/ TypeStoryText
    \/ SaveStory
    \/ ClearClick
    \/ ClearConfirmExpires

SpecClear == Init /\ [][NextClear]_vars

\* A session in which the user clears the History, also while a call is in
\* flight
LogContinue == HandleContinueUpTo(MaxLogCalls)

NextLog ==
    \/ TypeText
    \/ ClearHistory
    \/ LogContinue
    \/ \E i \in 1..Len(calls) : DelayElapsed(i)
    \/ \E i \in 1..Len(calls) : \E resp \in EditingResponses : ProviderResolves(i, resp)
    \/ SuccessTimerFires

SpecLog == Init /\ [][NextLog]_vars

-----------------------------------------------------------------------------
(* Properties of the generation handler of the App (under Spec) *)

\* C1: at most one provider call (generateText) is in flight at any instant,
\* whatever the order of clicks on Continue, provider resolutions and firings
\* of the 2-second success timer.
SingleFlight == Cardinality(InFlight) <= 1

\* a response with a success status and no reply text
WithoutReplyText(resp) ==
    /\ ~resp.net
    /\ resp.ok
    /\ resp.json
    /\ (~resp.hasContent \/ resp.content = <<>>)

\* a response with a non-success status
NonSuccessStatus(resp) == ~resp.net /\ ~resp.ok

\* the message names the status: by its code, or by its reason phrase
IdentifiesStatus(message, resp) ==
    \/ message = HttpStatusMessage(resp.status)
    \/ (resp.statusText # "" /\ message = resp.statusText)

\* the text is empty or holds white space only
IsBlank(text) == \A i \in 1..Len(text) : text[i] \in WhiteSpace

\* C6: a click on Continue while the editor text is empty or whitespace-only
\* ends in the error status with the user-input message, appends no History
\* entry and starts no invocation that could reach the provider.
BlankTextRejected ==
    [][ (lastOp'.name = "handleContinue" /\ IsBlank(editorText))
          => /\ status' = "error"
             /\ error' = "Please write something first!"
             /\ history' = history
             /\ storedHistory' = storedHistory
             /\ calls' = calls ]_vars

\* C6 witness: Continue was clicked on a whitespace-only text
BlankTextClicked ==
    /\ lastOp.name = "handleContinue"
    /\ editorText # <<>>
    /\ IsBlank(editorText)
    /\ status = "error"

\* C7: when the provider answers with a success status and no reply text,
\* the invocation ends in the error status, not in success, and the editor
\* text is left as it was.
NoReplyTextFails ==
    [][ (lastOp'.name = "ProviderResolves" /\ WithoutReplyText(lastOp'.resp))
          => /\ status' = "error"
             /\ error' # ""
             /\ editorText' = editorText
             /\ successTimers' = successTimers ]_vars

\* C7 witness: a call resolved with a success status and no choices
NoReplyTextResolved ==
    /\ lastOp.name = "ProviderResolves"
    /\ lastOp.resp = OkNoChoices
    /\ status = "error"

\* C8: when the provider call resolves with a non-success HTTP status, the
\* invocation ends in the error status and the recorded error identifies
\* that status.
HttpErrorIdentifiesStatus ==
    [][ (lastOp'.name = "ProviderResolves" /\ NonSuccessStatus(lastOp'.resp))
          => /\ status' = "error"
             /\ IdentifiesStatus(error', lastOp'.resp) ]_vars

\* the step is the continuation of handleContinue after a reply with text
ReplyStep ==
    /\ lastOp'.name = "ProviderResolves"
    /\ ~lastOp'.resp.net
    /\ lastOp'.resp.ok
    /\ lastOp'.resp.hasContent
    /\ lastOp'.resp.content # <<>>

\* the separator the specification puts between the text and a reply
Separator(text) ==
    IF text # <<>> /\ text[Len(text)] # "\n" THEN <<"\n">> ELSE <<>>

\* C19: on success the reply is appended to what the editor holds when the
\* reply arrives, as current + sep + reply, where sep is one line break
\* exactly when current is non-empty and does not end in a line break; the
\* editor holds the reply by the time the ai entry is in the History (the
\* handler inserts, then appends, with no await in between).
ReplyAppendedAfterSeparator ==
    [][ (ReplyStep \/ (nAppends' = nAppends + 1 /\ lastAppend'.type = "ai")) =>
          /\ ReplyStep
          /\ editorText' = editorText \o Separator(editorText) \o lastOp'.resp.content
          /\ Head(history').type = "ai" ]_vars

\* C19 witness: a reply arrived while the editor was empty (a new story was
\* started during the call), and the editor holds the reply alone
ReplyIntoEmptyEditor ==
    /\ lastOp.name = "ProviderResolves"
    /\ status = "success"
    /\ editorText \in Replies
    /\ Head(history).type = "ai"

\* C20: a successful generation appends exactly one History entry: it is of
\* kind ai, its content is the first 200 characters of the reply, it is the
\* head of the History right after the success, and the entries there were
\* follow it in their order (up to the limit of 50).
SuccessAppendsAiEntry ==
    [][ ReplyStep =>
          /\ status' = "success"
          /\ nAppends' = nAppends + 1
          /\ Len(history') = Min(Len(history) + 1, HISTORY_LIMIT)
          /\ Head(history').type = "ai"
          /\ Head(history').content =
               SubSeq(lastOp'.resp.content, 1, Min(CONTENT_LIMIT, Len(lastOp'.resp.content)))
          /\ \A k \in 2..Len(history') : history'[k] = history[k - 1] ]_vars

\* C20 witness: the second generation of a session succeeded with a reply of
\* more than 200 characters
LongReplySucceeded ==
    /\ lastOp.name = "ProviderResolves"
    /\ lastOp.call = 2
    /\ status = "success"
    /\ Len(lastOp.resp.content) > CONTENT_LIMIT
    /\ Len(Head(history).content) = CONTENT_LIMIT
    /\ Len(history) = 4

\* C21: the History Log is appended to only when a generation completes or
\* fails: no entry is appended before the provider call is issued, and none
\* between its issue and its resolution.
AppendsOnlyOnResolution ==
    [][ nAppends' = nAppends + 1 => lastOp'.name = "ProviderResolves" ]_vars

\* C21 as amended: the History Log changes only in two steps: the click that
\* submits a non-blank text puts a user entry at its head, before the call
\* is issued, and the arrival of a reply puts an ai entry at its head; the
\* issue of the call, a failed call and the success timer leave it alone.
AppendsOnSubmissionOrReply ==
    [][ /\ (lastOp'.name = "handleContinue" /\ ~IsBlank(editorText)) =>
             /\ nAppends' = nAppends + 1
             /\ Len(history') = Min(Len(history) + 1, HISTORY_LIMIT)
             /\ Head(history').type = "user"
        /\ ReplyStep =>
             /\ nAppends' = nAppends + 1
             /\ Len(history') = Min(Len(history) + 1, HISTORY_LIMIT)
             /\ Head(history').type = "ai"
        /\ ~(lastOp'.name = "handleContinue" /\ ~IsBlank(editorText)) /\ ~ReplyStep =>
             /\ nAppends' = nAppends
             /\ history' = history ]_vars

\* C21 witness: a call failed after its submission was recorded, and nothing
\* else was: the History holds the user entry alone
FailedAfterSubmission ==
    /\ lastOp.name = "ProviderResolves"
    /\ lastOp.resp.net
    /\ status = "error"
    /\ Len(history) = 1
    /\ Head(history).type = "user"
    /\ nAppends = 1

\* C24: clearHistory empties the History and removes the stored item, and
\* the item stays absent until the next entry is appended.
ClearHistoryRemovesStored ==
    [][ /\ lastOp'.name = "clearHistory" =>
             /\ history' = <<>>
             /\ storedHistory'.kind = "absent"
        /\ (storedHistory.kind = "absent" /\ nAppends' = nAppends) =>
             storedHistory'.kind = "absent" ]_vars

\* C24 witness: the History was cleared while the call was in flight, and
\* the reply appended next is the only entry of the History and of the
\* stored item
AppendedAfterClearHistory ==
    /\ nAppends = 2
    /\ Len(history) = 1
    /\ Head(history).type = "ai"
    /\ storedHistory = JsonItem(history)

\* C28: while a provider call that handleContinue issued is unresolved the
\* status is generating (and the Continue button disabled), also when the
\* 2-second timer of an earlier success fires during a later generation.
UnresolvedCallMeansGenerating == InFlight # {} => status = "generating"

\* C29: right after a generation succeeds the editor holds the text that was
\* submitted to the provider joined with the reply, and the current id is
\* the one of the time of the click, also when a story was loaded, started
\* or deleted, or the editor cleared, while the call was in flight.
ReplyJoinsSubmittedText ==
    [][ ReplyStep =>
          LET call == calls[lastOp'.call]
          IN  /\ editorText' = call.currentText \o Separator(call.currentText)
                                 \o lastOp'.resp.content
              /\ currentStoryId' = call.storyId ]_vars

\* the step is the end of a generation that fails: a click on Continue with
\* a blank text, or the provider call settling with a network error, a
\* non-success status, a body that is not JSON or no reply text
FailureStep ==
    \/ lastOp'.name = "handleContinue" /\ IsBlank(editorText)
    \/ /\ lastOp'.name = "ProviderResolves"
       /\ \/ lastOp'.resp.net
          \/ NonSuccessStatus(lastOp'.resp)
          \/ ~lastOp'.resp.net /\ lastOp'.resp.ok /\ ~lastOp'.resp.json
          \/ WithoutReplyText(lastOp'.resp)

\* the entries of kind ai of a history, as a set
AiEntries(h) == { i \in 1..Len(h) : h[i].type = "ai" }

\* C32: a generation that fails (blank text, network error, non-success
\* status, no reply text) leaves the editor text as it was and appends no
\* History entry: the History, its stored copy and with them the entries of
\* kind ai stay what they were.
FailureLeavesEditorAndHistory ==
    [][ FailureStep =>
          /\ editorText' = editorText
          /\ nAppends' = nAppends
          /\ history' = history
          /\ storedHistory' = storedHistory
          /\ Cardinality(AiEntries(history')) = Cardinality(AiEntries(history)) ]_vars

\* C32 witness: a call was refused with a non-success status after an earlier
\* generation had succeeded: the editor holds the earlier reply and the
\* History its ai entry behind the last submission
RefusedAfterSuccess ==
    /\ lastOp.name = "ProviderResolves"
    /\ NonSuccessStatus(lastOp.resp)
    /\ status = "error"
    /\ editorText # <<>>
    /\ Len(history) = 3
    /\ Head(history).type = "user"
    /\ history[2].type = "ai"

-----------------------------------------------------------------------------
(* Properties of aiMachine (under SpecMachine) *)

\* C2: a GENERATE event sent while the machine is generating starts no
\* second callGrok actor and leaves the state value, error and lastGenerated
\* unchanged.
GenerateIgnoredWhileGenerating ==
    [][ (mStatus = "generating" /\ lastOp'.name = "GENERATE")
          => /\ mStatus' = mStatus
             /\ mError' = mError
             /\ mLastGenerated' = mLastGenerated
             /\ mCall' = mCall
             /\ mIssued' = mIssued ]_vars

\* C2 witness: the last event was a GENERATE that started no actor, and the
\* machine is generating
GenerateSentWhileGenerating ==
    /\ lastOp.name = "GENERATE"
    /\ lastOp.call = mIssued
    /\ mStatus = "generating"
    /\ mCall.active

\* C9: a RETRY sent in failure starts one callGrok actor whose input is the
\* input of the attempt that failed.
RetryReissuesSameInput ==
    [][ (mStatus = "failure" /\ lastOp'.name = "RETRY")
          => /\ mStatus' = "generating"
             /\ mIssued' = mIssued + 1
             /\ mCall'.active
             /\ mCall'.text = mPrevInput ]_vars

\* C9 witness: a retry of an attempt whose input was an earlier reply
RetriedAfterReply ==
    /\ lastOp.name = "RETRY"
    /\ mStatus = "generating"
    /\ mCall.active
    /\ mCall.text # ""

\* C10: no state with the state value generating has a non-null error: the
\* entry action clears it before the outcome of the new call is recorded,
\* also when generating is entered from failure by RETRY.
GeneratingHasNoError == mStatus = "generating" => mError = Null

\* C10 witness: generating was entered from failure by RETRY
GeneratingAfterRetry ==
    /\ lastOp.name = "RETRY"
    /\ mStatus = "generating"
    /\ mIssued > 1

\* C11: in every reachable state of the machine the error is non-null only
\* while the state value is failure; in particular it is null again in idle
\* after failure was left by CANCEL.
ErrorOnlyInFailure == mError # Null => mStatus = "failure"

\* C12: a CANCEL sent in failure moves the machine to idle and leaves
\* lastGenerated as it was: the reply of the last success, or null when no
\* call has succeeded.
CancelKeepsLastReply ==
    [][ (mStatus = "failure" /\ lastOp'.name = "CANCEL")
          => /\ mStatus' = "idle"
             /\ mLastGenerated' = mLastGenerated ]_vars

\* C12 witness: failure was left by CANCEL after an earlier call succeeded
CancelledAfterSuccess ==
    /\ lastOp.name = "CANCEL"
    /\ mStatus = "idle"
    /\ mError # Null
    /\ mLastGenerated # Null

\* the transitions the specification lists: state, event or outcome of the
\* call, next state
TransitionTable ==
    { <<"idle",       "GENERATE",       "generating">>,
      <<"generating", "callGrok.done",  "success">>,
      <<"generating", "callGrok.error", "failure">>,
      <<"success",    "CONTINUE",       "idle">>,
      <<"failure",    "RETRY",          "generating">>,
      <<"failure",    "CANCEL",         "idle">> }

\* C22: the machine starts in idle; a step takes it from a state to the next
\* state of the table for the event sent or the outcome of the call; an event
\* the table does not list for the state leaves the state value and the
\* context as they were; and each entry into generating starts exactly one
\* callGrok actor, while no other step starts one.
TransitionsAsListed ==
    /\ mStatus = "idle"
    /\ [][ LET listed == { t \in TransitionTable :
                             t[1] = mStatus /\ t[2] = lastOp'.name }
           IN  /\ \A t \in listed : mStatus' = t[3]
               /\ listed = {} =>
                    /\ mStatus' = mStatus
                    /\ mError' = mError
                    /\ mLastGenerated' = mLastGenerated
                    /\ mCall' = mCall
               /\ IF mStatus' = "generating" /\ listed # {}
                  THEN mIssued' = mIssued + 1 /\ mCall'.active
                  ELSE mIssued' = mIssued ]_vars

\* C22 witness: a CONTINUE was sent in failure, which does not handle it,
\* after one call had succeeded and the next one had failed
ContinueSentInFailure ==
    /\ lastOp.name = "CONTINUE"
    /\ mStatus = "failure"
    /\ mLastGenerated # Null
    /\ mIssued = 2

\* C27: given that the provider call settles, the machine leaves generating
\* for success or failure every time it enters it; and in failure both a
\* RETRY (back to generating, while the model lets it start a call) and a
\* CANCEL (to idle) can be taken, so the machine is not stuck there.
GeneratingSettles ==
    /\ (mStatus = "generating") ~> (mStatus \in {"success", "failure"})
    /\ [](mStatus = "failure" =>
            /\ ENABLED (Send("CANCEL") /\ mStatus' = "idle")
            /\ mIssued < MaxIssued =>
                 ENABLED (Send("RETRY") /\ mStatus' = "generating"))

\* C27 witness: the call started by a RETRY has failed as the first one did
FailedAgain ==
    /\ lastOp.name = "callGrok.error"
    /\ mStatus = "failure"
    /\ mLastGenerated = Null
    /\ mIssued = 2

\* The App against the machine (under Spec).  The machine state an App
\* status stands for: 'error' is failure
MachineState(st) == IF st = "error" THEN "failure" ELSE st

\* the pairs of a state and a next state of the transitions the
\* specification lists for the machine
ListedMoves == { <<t[1], t[3]>> : t \in TransitionTable }

\* C33: every change of the App's status, with 'error' read as failure, goes
\* from a state to a next state of a transition the machine's table lists;
\* in particular the App leaves success only toward idle and enters
\* generating only from idle or failure.
AppRefinesMachine ==
    /\ status = "idle"
    /\ [][ status' # status =>
             <<MachineState(status), MachineState(status')>> \in ListedMoves ]_vars
    /\ [][ (status = "success" /\ status' # status) => status' = "idle" ]_vars
    /\ [][ (status' = "generating" /\ status' # status) =>
             status \in {"idle", "error"} ]_vars

-----------------------------------------------------------------------------
(* Properties of the Story Store (under SpecStories and SpecSaveStory) *)

\* the stories of a list, as a set
Elems(list) == { list[i] : i \in 1..Len(list) }

\* the step is a click on Save, a click on the delete button of a Story, a
\* (re)load of the page
SaveStep == lastOp'.name = "saveStory"
DeleteStep == lastOp'.name = "deleteStory"
MountStep == lastOp'.name = "mount"

\* the current id names a Story of the list
CurrentIsStored == currentStoryId # Null /\ currentStoryId[1] \in StoryIds(stories)

\* the first Story of stories' is new, holds the content of the editor, is
\* put before the stories there were, and is the current one
PrependsCurrent ==
    /\ Len(stories') = Len(stories) + 1
    /\ Tail(stories') = stories
    /\ Head(stories').content = editorText
    /\ currentStoryId' = Str(Head(stories').id)

\* C13: saveStory with a current id that names a stored Story replaces that
\* Story's content and title and leaves the number of stories unchanged;
\* with no current id and a non-blank content it adds one Story, puts it
\* first and makes its id the current one.
SaveUpdatesOrCreates ==
    [][ (SaveStep /\ ~IsBlank(editorText)) =>
          /\ CurrentIsStored =>
               /\ Len(stories') = Len(stories)
               /\ currentStoryId' = currentStoryId
               /\ \A i \in 1..Len(stories) :
                    IF stories[i].id = currentStoryId[1]
                    THEN /\ stories'[i].content = editorText
                         /\ stories'[i].title = StoryTitle(editorText)
                         /\ stories'[i].id = stories[i].id
                         /\ stories'[i].timestamp = stories[i].timestamp
                    ELSE stories'[i] = stories[i]
          /\ currentStoryId = Null => PrependsCurrent ]_vars

\* C13 witness: a Story this session created was saved again at a later
\* reading of the clock, with another Story stored
StorySavedAgain ==
    /\ lastOp.name = "saveStory"
    /\ Len(stories) = 2
    /\ \E i \in 1..2 :
         /\ currentStoryId = Str(stories[i].id)
         /\ stories[i].timestamp = StartTime
         /\ stories[i].content = editorText
         /\ stories[i].title = UntitledStory
    /\ now > StartTime

\* C14: the ids of the stories are pairwise distinct in every reachable
\* state, whatever the sequence of save, new, load, delete and clear
\* operations and whatever the readings of the clock.
StoryIdsDistinct ==
    \A i, j \in 1..Len(stories) : i # j => stories[i].id # stories[j].id

\* C15: deleteStory(id) removes the Story with that id and keeps the others
\* in their order; when id is the current id it also clears the editor and
\* sets the current id to none.
DeleteRemovesAndResets ==
    [][ DeleteStep =>
          /\ lastOp'.id \notin StoryIds(stories')
          /\ Elems(stories') = { s \in Elems(stories) : s.id # lastOp'.id }
          /\ \A i, j \in 1..Len(stories') :
               i < j => \E k, l \in 1..Len(stories) :
                          k < l /\ stories[k] = stories'[i] /\ stories[l] = stories'[j]
          /\ IF currentStoryId = Str(lastOp'.id)
             THEN editorText' = <<>> /\ currentStoryId' = Null
             ELSE editorText' = editorText /\ currentStoryId' = currentStoryId ]_vars

\* C15 witness: the second Story of the list was deleted, the first one was
\* kept, and the editor and the current id are reset
CurrentStoryDeleted ==
    /\ lastOp.name = "deleteStory"
    /\ Len(stories) = 1
    /\ stories[1].timestamp > StartTime
    /\ lastOp.id = ToString(StartTime)
    /\ currentStoryId = Null
    /\ editorText = <<>>

\* C16: a (re)load of the page never fails, whatever localStorage holds: the
\* stories and the history are what was persisted last, and are empty when
\* nothing is stored or when the stored text cannot be parsed.
LoadYieldsPersistedOrEmpty ==
    [][ MountStep =>
          /\ appState' = "mounted"
          /\ stories' = (IF storedStories.kind = "json"
                         THEN storedStories.value ELSE <<>>)
          /\ history' = (IF storedHistory.kind = "json"
                         THEN storedHistory.value ELSE <<>>) ]_vars

SaveBlankIsNoOp ==
    [][ (SaveStep /\ IsBlank(editorText)) =>
          /\ stories' = stories
          /\ storedStories' = storedStories
          /\ currentStoryId' = currentStoryId
          /\ editorText' = editorText ]_vars

\* C18 witness: Save was clicked on a whitespace-only editor with a Story
\* stored and no current id
BlankContentSaved ==
    /\ lastOp.name = "saveStory"
    /\ editorText # <<>>
    /\ IsBlank(editorText)
    /\ stories # <<>>
    /\ currentStoryId = Null

\* the step is a click on Clear
ClearStep == lastOp'.name = "handleClear"

\* a first click on Clear was made, has not been confirmed, and its 3 s
\* have not passed: its timer is pending
ConfirmationAwaited == \E i \in 1..Len(clearTimers) : clearTimers[i] = "open"

\* C23: a click on Clear made within 3 seconds of a first click clears the
\* editor and resets the current id, whatever clicks were made before and
\* whatever timers are pending; a click that is not the second of such a
\* pair leaves the editor as it is.
SecondClickClears ==
    [][ ClearStep =>
          IF ConfirmationAwaited
          THEN editorText' = <<>> /\ currentStoryId' = Null
          ELSE editorText' = editorText /\ currentStoryId' = currentStoryId ]_vars

\* the title the specification gives a content: its first line, cut after 50
\* characters, or "Untitled Story" when the first line is empty
ExpectedTitle(content) ==
    LET line == FirstLine(content)
    IN  IF line = <<>> THEN UntitledStory
        ELSE SubSeq(line, 1, Min(Len(line), TITLE_LIMIT))

\* C25: a save that creates a Story, or updates the current one, gives it
\* the first line of the content cut after 50 characters as its title, or
\* "Untitled Story" when the first line is empty; and no title of the
\* collection has more than 50 characters.
TitleIsFirstLine ==
    /\ [](\A s \in Elems(stories) : Len(s.title) <= TITLE_LIMIT)
    /\ [][ (SaveStep /\ ~IsBlank(editorText)) =>
             /\ currentStoryId = Null =>
                  /\ Len(stories') = Len(stories) + 1
                  /\ Head(stories').title = ExpectedTitle(editorText)
             /\ CurrentIsStored =>
                  \A i \in 1..Len(stories) :
                     stories[i].id = currentStoryId[1] =>
                        stories'[i].title = ExpectedTitle(editorText) ]_vars

\* C25 witness: a content whose first line has 51 characters was saved over
\* the second Story of the list, whose title is the first 50 of them
LongFirstLineSaved ==
    /\ lastOp.name = "saveStory"
    /\ Len(stories) = 2
    /\ currentStoryId = Str(stories[2].id)
    /\ stories[2].content = editorText
    /\ Len(FirstLine(editorText)) = TITLE_LIMIT + 1
    /\ Len(stories[2].title) = TITLE_LIMIT

\* C26: a save over the Story the current id names changes the content and
\* the title of that one Story: its id, its timestamp and its place in the
\* list are kept, as is every other Story.
ResaveChangesOneStory ==
    [][ (SaveStep /\ ~IsBlank(editorText) /\ CurrentIsStored) =>
          /\ Len(stories') = Len(stories)
          /\ \E k \in 1..Len(stories) :
               /\ stories[k].id = currentStoryId[1]
               /\ stories'[k].id = stories[k].id
               /\ stories'[k].timestamp = stories[k].timestamp
               /\ \A i \in 1..Len(stories) : i # k => stories'[i] = stories[i] ]_vars

\* C30: in every reachable state the current id is none or the id of a
\* Story of the collection, whatever the sequence of saves, loads, new
\* stories, deletions, confirmed Clears and reloads.
CurrentIdIsStored == currentStoryId # Null => currentStoryId[1] \in StoryIds(stories)

\* C30 witness: a Story was deleted while another one was the current one,
\* and that one is still in the collection
OtherStoryDeleted ==
    /\ lastOp.name = "deleteStory"
    /\ currentStoryId # Null
    /\ currentStoryId # Str(lastOp.id)
    /\ Len(stories) = 1

\* C31: after every save and every deletion, once the persistence effect
\* has run, what a reload would read under 'ai-stories' is the in-memory
\* collection, also when the deletion removed the last Story.
StoredStoriesEqualInMemory ==
    [][ (SaveStep \/ DeleteStep) =>
          /\ ~ParseThrows(storedStories')
          /\ Loaded(storedStories') = stories' ]_vars

-----------------------------------------------------------------------------
(* Properties of the History Log (under SpecHistory) *)

\* the step is a call of addToHistory
Appends == nAppends' = nAppends + 1

\* C3: after N addToHistory calls from an empty log the log holds
\* min(N, 50) entries, never more than 50, and its first entry is the one
\* the most recent call created.
HistoryLengthAndHead ==
    /\ Len(history) = Min(nAppends, HISTORY_LIMIT)
    /\ Len(history) <= HISTORY_LIMIT
    /\ nAppends > 0 =>
         /\ Head(history).type = lastAppend.type
         /\ Head(history).timestamp = lastAppend.at
         /\ Head(history).id = ToString(lastAppend.at)
         /\ IsPrefix(Head(history).content, lastAppend.content)

\* C3 witness: more than 50 calls were made
MoreThanLimitAppended ==
    /\ nAppends > HISTORY_LIMIT
    /\ Len(history) = HISTORY_LIMIT

\* the generations of the session that have succeeded
Succeeded == { i \in 1..Len(calls) : calls[i] = Finished }

\* the entries the first generation of a session appended
FirstGeneration(e) == e.timestamp <= StartTime + 1

\* C4: an append to a log of 50 entries removes exactly the last one and
\* keeps the other 49 in their order behind the new head, so the log is
\* newest-first by insertion whatever the timestamps are; after 51
\* successful generations the log holds 50 entries, none of them from the
\* first generation.
EvictsOldestKeepsOrder ==
    /\ [][ Appends =>
             /\ Len(history') = Min(Len(history) + 1, HISTORY_LIMIT)
             /\ Head(history').timestamp = lastAppend'.at
             /\ Head(history').type = lastAppend'.type
             /\ \A i \in 2..Len(history') : history'[i] = history[i - 1] ]_vars
    /\ []( (~Scripted /\ Cardinality(Succeeded) >= HISTORY_LIMIT + 1)
             => /\ Len(history) = HISTORY_LIMIT
                /\ \A i \in 1..Len(history) : ~FirstGeneration(history[i]) )

\* C4 witness: 51 generations have succeeded
FiftyOneGenerations ==
    /\ ~Scripted
    /\ Cardinality(Succeeded) = HISTORY_LIMIT + 1
    /\ Len(history) = HISTORY_LIMIT

\* C5: the stored content is the first 200 characters of the input: 200
\* characters long and a prefix of the input when the input is longer,
\* the input itself otherwise; later appends leave a stored content as it is.
ContentTruncatedOnce ==
    /\ []( nAppends > 0 =>
             LET stored == Head(history).content
                 input  == lastAppend.content
             IN  IF Len(input) > CONTENT_LIMIT
                 THEN Len(stored) = CONTENT_LIMIT /\ IsPrefix(stored, input)
                 ELSE stored = input )
    /\ [][ Appends =>
             \A i \in 2..Len(history') :
                 history'[i].content = history[i - 1].content ]_vars

\* C5 witness: an input longer than 200 characters was appended to a log
\* that held entries
LongContentAppended ==
    /\ Len(lastAppend.content) > CONTENT_LIMIT
    /\ Len(Head(history).content) = CONTENT_LIMIT
    /\ Len(history) > 1

=============================================================================
